---- MODULE Spec2Model ----
(***************************************************************************)
(* The zen and vote commands of bot/exts/utils/utils.py (class Utils).     *)
(*                                                                         *)
(* A text is a sequence of one-character strings.  ZEN_OF_PYTHON is the    *)
(* module constant the zen command searches; the command's locals          *)
(* (zen_lines, index, best_match, match_index, best_ratio) live from the   *)
(* call to its return.  out is what the last finished call sent to the     *)
(* channel or raised.  The vote command is given a title, modelled by its  *)
(* length, and options, modelled by their numbers; channel lists what the  *)
(* call did to the channel, in order.                                      *)
(***************************************************************************)
EXTENDS Integers, Sequences, FiniteSets, TLC

VARIABLES ZEN_OF_PYTHON, search_value, pc, zen_lines, index,
          best_match, match_index, best_ratio, out, seen,
          title, options, vpc, reaction, channel, raised

zenvars == <<ZEN_OF_PYTHON, search_value, pc, zen_lines, index,
             best_match, match_index, best_ratio, out, seen>>
votevars == <<title, options, vpc, reaction, channel, raised>>
vars == <<zenvars, votevars>>

(***************************************************************************)
(* Bounds.                                                                 *)
(***************************************************************************)
\* the longest corpus, in lines
MaxLines == 2
\* the largest number of options a vote call is given
MaxOptions == 22

(***************************************************************************)
(* str.lower, str.split, str.splitlines                                    *)
(***************************************************************************)
UpperCase == <<"A", "B", "C", "D", "E", "F", "G", "H", "I", "J", "K", "L", "M",
               "N", "O", "P", "Q", "R", "S", "T", "U", "V", "W", "X", "Y", "Z">>
LowerCase == <<"a", "b", "c", "d", "e", "f", "g", "h", "i", "j", "k", "l", "m",
               "n", "o", "p", "q", "r", "s", "t", "u", "v", "w", "x", "y", "z">>

LowerChar(c) ==
    IF \E k \in 1..Len(UpperCase) : UpperCase[k] = c
    THEN LowerCase[CHOOSE k \in 1..Len(UpperCase) : UpperCase[k] = c]
    ELSE c

\* s.lower()
lower(s) == [k \in 1..Len(s) |-> LowerChar(s[k])]

IsSpace(c) == c \in {" ", "\t", "\n", "\r"}

\* s.split(): the maximal runs of non-whitespace characters, left to right
RECURSIVE SplitFrom(_, _, _)
SplitFrom(s, k, word) ==
    IF k > Len(s)
    THEN IF word = <<>> THEN <<>> ELSE <<word>>
    ELSE IF IsSpace(s[k])
         THEN (IF word = <<>> THEN <<>> ELSE <<word>>) \o SplitFrom(s, k + 1, <<>>)
         ELSE SplitFrom(s, k + 1, Append(word, s[k]))

split(s) == SplitFrom(s, 1, <<>>)

\* s.splitlines(): the lines of s without their line ends; a line end at
\* the end of s opens no further line
LineEnd(s, k) ==
    IF \E j \in k..Len(s) : s[j] = "\n"
    THEN CHOOSE j \in k..Len(s) : s[j] = "\n" /\ \A h \in k..(j - 1) : s[h] # "\n"
    ELSE Len(s) + 1

RECURSIVE SplitLinesFrom(_, _)
SplitLinesFrom(s, k) ==
    IF k > Len(s) THEN <<>>
    ELSE <<SubSeq(s, k, LineEnd(s, k) - 1)>> \o SplitLinesFrom(s, LineEnd(s, k) + 1)

splitlines(s) == SplitLinesFrom(s, 1)

(***************************************************************************)
(* difflib.SequenceMatcher(None, a) with set_seq2(b), as zen uses it.      *)
(* No junk test is given and every line is shorter than 200 characters,    *)
(* so the popularity heuristic is off and no element of b is junk.         *)
(* Positions are Python's: a[i] is a[i + 1] here, ranges are half-open.    *)
(***************************************************************************)
IsBlock(a, b, i, j, k) == \A d \in 0..(k - 1) : a[i + d + 1] = b[j + d + 1]

Blocks(a, b, alo, ahi, blo, bhi) ==
    {c \in (alo..(ahi - 1)) \X (blo..(bhi - 1)) \X (1..(ahi - alo)) :
        /\ c[1] + c[3] <= ahi
        /\ c[2] + c[3] <= bhi
        /\ IsBlock(a, b, c[1], c[2], c[3])}

\* the longest matching block <<i, j, k>> in a[alo:ahi], b[blo:bhi]; of the
\* longest, the one that starts earliest in a, and of those the one that
\* starts earliest in b; <<alo, blo, 0>> when nothing matches
find_longest_match(a, b, alo, ahi, blo, bhi) ==
    LET S == Blocks(a, b, alo, ahi, blo, bhi)
    IN  IF S = {} THEN <<alo, blo, 0>>
        ELSE CHOOSE c \in S : \A d \in S :
                \/ c[3] > d[3]
                \/ /\ c[3] = d[3]
                   /\ \/ c[1] < d[1]
                      \/ c[1] = d[1] /\ c[2] <= d[2]

\* sum of the sizes of get_matching_blocks(): the longest block, then the
\* same to its left and to its right
RECURSIVE matches(_, _, _, _, _, _)
matches(a, b, alo, ahi, blo, bhi) ==
    LET m == find_longest_match(a, b, alo, ahi, blo, bhi)
        i == m[1]
        j == m[2]
        k == m[3]
    IN  IF k = 0 THEN 0
        ELSE k + (IF alo < i /\ blo < j THEN matches(a, b, alo, i, blo, j) ELSE 0)
               + (IF i + k < ahi /\ j + k < bhi
                  THEN matches(a, b, i + k, ahi, j + k, bhi) ELSE 0)

\* matcher.ratio() = 2.0 * matches / (len(a) + len(b)), or 1.0 when both
\* are empty, as the fraction <<numerator, denominator>>
ratio(a, b) ==
    IF Len(a) + Len(b) = 0 THEN <<1, 1>>
    ELSE <<2 * matches(a, b, 0, Len(a), 0, Len(b)), Len(a) + Len(b)>>

(***************************************************************************)
(* (len(line) - 5) ** 0.5 * matcher.ratio() for len(line) >= 5 is the real *)
(* sqrt(n) * num / den, kept as [n, num, den]; for len(line) < 5 Python    *)
(* gives a complex number, kept with its negative n.                       *)
(***************************************************************************)
\* len(line) ** 0.5 * matcher.ratio()
AdjustedByLength(query, line) ==
    LET r == ratio(lower(query), lower(line))
    IN  [n |-> Len(line), num |-> r[1], den |-> r[2]]

adjusted_ratio(query, line) ==
    LET r == ratio(lower(query), lower(line))
    IN  [n |-> Len(line) - 5, num |-> r[1], den |-> r[2]]

\* best_ratio = 0
ZeroRatio == [n |-> 0, num |-> 0, den |-> 1]

IsComplex(x) == x.n < 0

\* x >= y
GreaterOrEqual(x, y) ==
    x.n * x.num * x.num * y.den * y.den >= y.n * y.num * y.num * x.den * x.den

\* x > y for two real scores: sqrt(n1)*p1/q1 > sqrt(n2)*p2/q2, all parts
\* non-negative, compared by their squares
Greater(x, y) ==
    x.n * x.num * x.num * y.den * y.den > y.n * y.num * y.num * x.den * x.den

(***************************************************************************)
(* The texts the model draws ZEN_OF_PYTHON and the search values from.     *)
(***************************************************************************)
\* "now is never"
NowIsNever == <<"n", "o", "w", " ", "i", "s", " ", "n", "e", "v", "e", "r">>
\* "Now is better than never."
NowIsBetter == <<"N", "o", "w", " ", "i", "s", " ", "b", "e", "t", "t", "e", "r", " ", "t", "h", "a", "n", " ", "n", "e", "v", "e", "r", ".">>
\* "aaaaa", "bbbbb": five characters, so (len(line) - 5) ** 0.5 is 0
Aaaaa == <<"a", "a", "a", "a", "a">>
Bbbbb == <<"b", "b", "b", "b", "b">>
\* "aaaaaa", "bbbbbb"
Aaaaaa == <<"a", "a", "a", "a", "a", "a">>
Bbbbbb == <<"b", "b", "b", "b", "b", "b">>
\* "now": shorter than five characters
ShortNow == <<"n", "o", "w">>

\* lines of words, and lines whose scores tie; every line has five
\* characters or more, as every line of the command's text has
WordPool == {NowIsNever, NowIsBetter}
TiePool == {Aaaaa, Bbbbb, Aaaaaa, Bbbbbb}
\* with a line of fewer than five characters
ShortPool == {NowIsNever, Aaaaaa, ShortNow}

\* "now", "NOW", "never", "bet", "ab", "AB"
QueryPool ==
    {<<"n", "o", "w">>, <<"N", "O", "W">>, <<"n", "e", "v", "e", "r">>,
     <<"b", "e", "t">>, <<"a", "b">>, <<"A", "B">>}

\* the corpora of up to MaxLines lines over a pool
CorporaOver(pool) == UNION {[1..n -> pool] : n \in 1..MaxLines}

\* the text of a corpus: every line followed by a line end
RECURSIVE JoinLines(_)
JoinLines(lines) ==
    IF lines = <<>> THEN <<>>
    ELSE Head(lines) \o <<"\n">> \o JoinLines(Tail(lines))

NoneValue == [type |-> "None", n |-> 0, s |-> <<>>]
IntValue(n) == [type |-> "int", n |-> n, s |-> <<>>]
StrValue(s) == [type |-> "str", n |-> 0, s |-> s]

\* the indices of the longest corpus, and one more on either side
IntPool == (0 - (MaxLines + 1))..MaxLines

(***************************************************************************)
(* What a call leaves behind: the embed it sent, or the exception raised.  *)
(***************************************************************************)
NoOut == [kind |-> "none", title |-> <<>>, description |-> <<>>, message |-> <<>>]
Sent(e) == [kind |-> "send", title |-> e.title, description |-> e.description,
            message |-> <<>>]
Raise(exception, text) ==
    [kind |-> exception, title |-> <<>>, description |-> <<>>, message |-> text]

\* one embed kept from call to call
SharedEmbed ==
    [title |-> IF out.kind = "send" THEN out.title ELSE <<"The Zen of Python">>,
     description |-> ZEN_OF_PYTHON]

\* embed = Embed(colour=..., title="The Zen of Python", description=ZEN_OF_PYTHON)
Embed == [title |-> <<"The Zen of Python">>, description |-> ZEN_OF_PYTHON]

\* embed.title += f" (line {i}):"; embed.description = line
LineEmbed(i, line) ==
    [title |-> Embed.title \o <<" (line ", ToString(i), "):">>, description |-> line]

\* a negative n counted from the start
PyItemFromStart(seq, n) == IF n >= 0 THEN seq[n + 1] ELSE seq[0 - n]

\* seq[n] of Python: a negative n counts from the end
PyItem(seq, n) == IF n >= 0 THEN seq[n + 1] ELSE seq[Len(seq) + n + 1]

\* a bound one too small
UpperBoundShort(lines) == Len(lines) - 2

\* len(zen_lines) - 1 and -1 * len(zen_lines)
upper_bound(lines) == Len(lines) - 1
lower_bound(lines) == (0 - 1) * Len(lines)

IndexError(lines) ==
    Raise("BadArgument", <<"Please provide an index between ", ToString(lower_bound(lines)),
                           " and ", ToString(upper_bound(lines)), ".">>)
NoMatchError ==
    Raise("BadArgument",
          <<"I didn't get a match! Please try again with a different search term.">>)

\* adjusted_ratio > best_ratio with a complex adjusted_ratio; best_ratio is
\* the int 0 until a float replaces it
ComplexError ==
    Raise("TypeError", <<"'>' not supported between instances of 'complex' and '",
                         IF best_ratio = ZeroRatio THEN "int" ELSE "float", "'">>)

\* the word is compared as written: word == search_value.lower()
HasExactWordAsWritten(line, query) ==
    \E w \in 1..Len(split(line)) : split(line)[w] = lower(query)

\* the query is compared as written: word.lower() == search_value
HasExactWordQueryAsWritten(line, query) ==
    \E w \in 1..Len(split(line)) : lower(split(line)[w]) = query

\* any(word.lower() == search_value.lower() for word in line.split())
HasExactWord(line, query) ==
    \E w \in 1..Len(split(line)) : lower(split(line)[w]) = lower(query)

\* best_match = zen_lines[0]
FirstLineBest == [best_match |-> zen_lines[1], match_index |-> 0, best_ratio |-> ZeroRatio]

\* best_match = "", match_index = 0, best_ratio = 0
FreshBest == [best_match |-> <<>>, match_index |-> 0, best_ratio |-> ZeroRatio]

(***************************************************************************)
(* The zen command.  The body runs without a suspension point up to its    *)
(* one send, so calls do not interleave; a call's locals go with its       *)
(* return.  seen holds one earlier call and its outcome, picked at will    *)
(* when a later call is made.                                              *)
(***************************************************************************)
NotSeen == [arg |-> NoneValue, out |-> NoOut]

Observe ==
    seen' \in {seen} \cup (IF seen = NotSeen /\ out.kind # "none"
                           THEN {[arg |-> search_value, out |-> out]} ELSE {})

Return(result) ==
    /\ out' = result
    /\ pc' = "idle"
    /\ zen_lines' = <<>>
    /\ index' = 0
    /\ best_match' = <<>>
    /\ match_index' = 0
    /\ best_ratio' = ZeroRatio

InitWith(corpora) ==
    /\ ZEN_OF_PYTHON \in {JoinLines(c) : c \in corpora}
    /\ search_value = NoneValue
    /\ pc = "idle"
    /\ zen_lines = <<>>
    /\ index = 0
    /\ best_match = <<>>
    /\ match_index = 0
    /\ best_ratio = ZeroRatio
    /\ out = NoOut
    /\ seen = NotSeen

\* lines 105-108: no argument, the whole text
ZenNone ==
    /\ pc = "idle"
    /\ Observe
    /\ search_value' = NoneValue
    /\ Return(Sent([title |-> Embed.title \o <<", by Tim Peters">>,
                    description |-> Embed.description]))
    /\ UNCHANGED <<ZEN_OF_PYTHON, votevars>>

\* lines 110-122: an integer argument
ZenIndex(n) ==
    /\ pc = "idle"
    /\ Observe
    /\ search_value' = IntValue(n)
    /\ LET lines == splitlines(ZEN_OF_PYTHON)
       IN  IF ~(lower_bound(lines) <= n /\ n <= upper_bound(lines))
           THEN Return(IndexError(lines))
           ELSE Return(Sent(LineEmbed(n % Len(lines), PyItem(lines, n))))
    /\ UNCHANGED <<ZEN_OF_PYTHON, votevars>>

\* lines 110, 126: a string argument, the scan for an exact word begins
ZenQuery(s) ==
    /\ pc = "idle"
    /\ Observe
    /\ search_value' = StrValue(s)
    /\ zen_lines' = splitlines(ZEN_OF_PYTHON)
    /\ index' = 0
    /\ pc' = "exact"
    /\ out' = NoOut
    /\ UNCHANGED <<ZEN_OF_PYTHON, best_match, match_index, best_ratio, votevars>>

\* lines 126-132: one line of the scan for an exact word
ZenExactLine ==
    /\ pc = "exact"
    /\ index < Len(zen_lines)
    /\ IF HasExactWord(zen_lines[index + 1], search_value.s)
       THEN Return(Sent(LineEmbed(index, zen_lines[index + 1])))
       ELSE /\ index' = index + 1
            /\ UNCHANGED <<pc, zen_lines, best_match, match_index, best_ratio, out>>
    /\ UNCHANGED <<ZEN_OF_PYTHON, search_value, seen, votevars>>

\* lines 135-139: no line has the word, the fuzzy search begins
ZenFuzzyBegin ==
    /\ pc = "exact"
    /\ index = Len(zen_lines)
    /\ pc' = "fuzzy"
    /\ index' = 0
    /\ best_match' = FreshBest.best_match
    /\ match_index' = FreshBest.match_index
    /\ best_ratio' = FreshBest.best_ratio
    /\ UNCHANGED <<ZEN_OF_PYTHON, search_value, zen_lines, out, seen, votevars>>

\* lines 141-152: one line of the fuzzy search; comparing a complex score
\* raises TypeError
ZenFuzzyLine ==
    /\ pc = "fuzzy"
    /\ index < Len(zen_lines)
    /\ LET line == zen_lines[index + 1]
           adjusted == adjusted_ratio(search_value.s, line)
       IN  IF IsComplex(adjusted)
           THEN Return(ComplexError)
           ELSE /\ IF Greater(adjusted, best_ratio)
                   THEN /\ best_ratio' = adjusted
                        /\ best_match' = line
                        /\ match_index' = index
                   ELSE UNCHANGED <<best_ratio, best_match, match_index>>
                /\ index' = index + 1
                /\ UNCHANGED <<pc, zen_lines, out>>
    /\ UNCHANGED <<ZEN_OF_PYTHON, search_value, seen, votevars>>

\* lines 154-159: after the last line
ZenFuzzyEnd ==
    /\ pc = "fuzzy"
    /\ index = Len(zen_lines)
    /\ IF best_match = <<>>
       THEN Return(NoMatchError)
       ELSE Return(Sent(LineEmbed(match_index, best_match)))
    /\ UNCHANGED <<ZEN_OF_PYTHON, search_value, seen, votevars>>

(***************************************************************************)
(* The vote command.                                                       *)
(***************************************************************************)
\* len(title) > 256
MaxTitle == 256
\* len(options) < 2
MinOptions == 2
\* len(options) > 20
MaxReactions == 20
\* codepoint_start, "regional_indicator_a"; chr(i) is kept as its code point i
codepoint_start == 127462

TitlePool == {0, MaxTitle, MaxTitle + 1}

NoError == <<>>

\* len(options) >= 20
ArgumentErrorAtTwenty(t, given) ==
    IF t > MaxTitle THEN <<"The title cannot be longer than 256 characters.">>
    ELSE IF Len(given) < MinOptions THEN <<"Please provide at least 2 options.">>
    ELSE IF Len(given) >= MaxReactions THEN <<"I can only handle 20 options!">>
    ELSE NoError

\* lines 196-201: the message of the BadArgument raised, if any
ArgumentError(t, given) ==
    IF t > MaxTitle THEN <<"The title cannot be longer than 256 characters.">>
    ELSE IF Len(given) < MinOptions THEN <<"Please provide at least 2 options.">>
    ELSE IF Len(given) > MaxReactions THEN <<"I can only handle 20 options!">>
    ELSE NoError

\* line 204: {chr(i): f"{chr(i)} - {v}" for i, v in enumerate(options, start=codepoint_start)},
\* in insertion order
OptionsDict(given) ==
    [k \in 1..Len(given) |->
        [key |-> codepoint_start + (k - 1),
         value |-> [letter |-> codepoint_start + (k - 1), option |-> given[k]]]]

SendEvent(t, description) ==
    [type |-> "send", emoji |-> 0, title |-> t, description |-> description]
ReactionEvent(emoji) ==
    [type |-> "reaction", emoji |-> emoji, title |-> 0, description |-> <<>>]

InitVoteIdle ==
    /\ title = 0
    /\ options = <<>>
    /\ vpc = "idle"
    /\ reaction = 0
    /\ channel = <<>>
    /\ raised = NoError

\* lines 196-206: the checks, then the embed is built and sent
VoteCall(t, k) ==
    /\ vpc \in {"idle", "done"}
    /\ title' = t
    /\ options' = [v \in 1..k |-> v]
    /\ reaction' = 0
    /\ raised' = ArgumentError(t, options')
    /\ IF raised' # NoError
       THEN /\ channel' = <<>>
            /\ vpc' = "done"
       ELSE /\ channel' = <<SendEvent(t, [d \in 1..k |-> OptionsDict(options')[d].value])>>
            /\ vpc' = "react"
    /\ UNCHANGED zenvars

\* lines 207-208: one reaction of the loop over the dict's keys
VoteReact ==
    /\ vpc = "react"
    /\ reaction < Len(OptionsDict(options))
    /\ channel' = Append(channel, ReactionEvent(OptionsDict(options)[reaction + 1].key))
    /\ reaction' = reaction + 1
    /\ UNCHANGED <<title, options, vpc, raised, zenvars>>

\* the loop is over, the command returns
VoteEnd ==
    /\ vpc = "react"
    /\ reaction = Len(OptionsDict(options))
    /\ vpc' = "done"
    /\ UNCHANGED <<title, options, reaction, channel, raised, zenvars>>

Init == InitWith(CorporaOver(WordPool) \cup CorporaOver(TiePool)) /\ InitVoteIdle

InitShort == InitWith(CorporaOver(ShortPool)) /\ InitVoteIdle

Next ==
    \/ ZenNone
    \/ \E n \in IntPool : ZenIndex(n)
    \/ \E s \in QueryPool : ZenQuery(s)
    \/ ZenExactLine
    \/ ZenFuzzyBegin
    \/ ZenFuzzyLine
    \/ ZenFuzzyEnd

Spec == Init /\ [][Next]_vars

SpecShort == InitShort /\ [][Next]_vars

InitVote == InitWith({<<NowIsNever>>}) /\ InitVoteIdle

NextVote ==
    \/ \E t \in TitlePool, k \in 0..MaxOptions : VoteCall(t, k)
    \/ VoteReact
    \/ VoteEnd

SpecVote == InitVote /\ [][NextVote]_vars

(***************************************************************************)
(* The claims.  A call is over when pc is "idle" again; search_value is    *)
(* then its argument and out its outcome.                                  *)
(***************************************************************************)
Corpus == splitlines(ZEN_OF_PYTHON)
L == Len(Corpus)

Done == pc = "idle" /\ out.kind # "none"

\* the line at index i, labelled "line i"
MatchResult(i) ==
    [kind |-> "send", title |-> <<"The Zen of Python", " (line ", ToString(i), "):">>,
     description |-> Corpus[i + 1], message |-> <<>>]

OutOfRange(lowerBound, upperBound) ==
    [kind |-> "BadArgument", title |-> <<>>, description |-> <<>>,
     message |-> <<"Please provide an index between ", ToString(lowerBound), " and ",
                   ToString(upperBound), ".">>]

NoMatch ==
    [kind |-> "BadArgument", title |-> <<>>, description |-> <<>>,
     message |-> <<"I didn't get a match! Please try again with a different search term.">>]

\* line i has a whitespace-delimited word equal to s, both lowercased
ExactAt(i, s) ==
    \E w \in 1..Len(split(Corpus[i + 1])) : lower(split(Corpus[i + 1])[w]) = lower(s)

AnyExact(s) == \E i \in 0..(L - 1) : ExactAt(i, s)

\* C1: an integer n with -L <= n <= L-1 yields the line at ((n % L) + L) % L
\* and that index; any other integer fails with OutOfRange(-L, L-1) and no
\* line (so for L = 1 only 0 and -1 succeed).
C1_IndexSelector ==
    (Done /\ search_value.type = "int") =>
        LET n == search_value.n
        IN  IF -L <= n /\ n <= L - 1
            THEN out = MatchResult(((n % L) + L) % L)
            ELSE out = OutOfRange(-L, L - 1)

C1_Witness ==
    /\ Done
    /\ search_value.type = "int"
    /\ search_value.n = -L
    /\ L >= 2
    /\ out = MatchResult(0)

\* C2: when some line has a word equal to the query, both lowercased, the
\* lowest-indexed such line is returned with its index, and the fuzzy phase
\* is never entered.
C2_ExactWordFirst ==
    /\ (pc = "fuzzy") => ~AnyExact(search_value.s)
    /\ (Done /\ search_value.type = "str" /\ AnyExact(search_value.s)) =>
            \E i \in 0..(L - 1) :
                /\ ExactAt(i, search_value.s)
                /\ \A j \in 0..(i - 1) : ~ExactAt(j, search_value.s)
                /\ out = MatchResult(i)

\* "now" against "now is never", "Now is better than never."
C2_Witness ==
    /\ Done
    /\ Corpus = <<NowIsNever, NowIsBetter>>
    /\ search_value = StrValue(<<"n", "o", "w">>)
    /\ out = MatchResult(0)

\* C9: a call that returns a line reports an index i with 0 <= i <= L-1 and
\* returns exactly the line at i.
C9_IndexAndLineAgree ==
    (Done /\ search_value.type # "None" /\ out.kind = "send") =>
        \E i \in 0..(L - 1) : out = MatchResult(i)

C9_Witness ==
    /\ Done
    /\ search_value.type = "int"
    /\ search_value.n = -1
    /\ L >= 2
    /\ Corpus[1] # Corpus[L]
    /\ out = MatchResult(L - 1)

\* sqrt(max(len(line) - 5, 0)) * rawRatio of line i, as [n, num, den]
AdjustedScore(i, s) ==
    LET line == Corpus[i + 1]
        r == ratio(lower(s), lower(line))
    IN  [n |-> IF Len(line) - 5 > 0 THEN Len(line) - 5 ELSE 0, num |-> r[1], den |-> r[2]]

\* sqrt(x.n) * x.num / x.den > sqrt(y.n) * y.num / y.den
Above(x, y) ==
    (x.n * x.num * x.num) * (y.den * y.den) > (y.n * y.num * y.num) * (x.den * x.den)

Positive(x) == x.n > 0 /\ x.num > 0

SomePositive(s) == \E i \in 0..(L - 1) : Positive(AdjustedScore(i, s))

\* i is the lowest index among the first n lines whose score is their maximum
FirstMaximum(i, s, n) ==
    /\ i \in 0..(n - 1)
    /\ \A j \in 0..(n - 1) : ~Above(AdjustedScore(j, s), AdjustedScore(i, s))
    /\ \A j \in 0..(i - 1) : Above(AdjustedScore(i, s), AdjustedScore(j, s))

Fuzzy == search_value.type = "str" /\ ~AnyExact(search_value.s)

\* C3: with no exact word in any line, the line returned has the maximum
\* adjusted score over all lines and, among the lines with that maximum, the
\* lowest index; through the scan the best candidate is the first maximum of
\* the lines scanned so far, so a later line replaces it only with a
\* strictly greater score.
C3_FirstMaximum ==
    /\ (Done /\ Fuzzy /\ SomePositive(search_value.s)) =>
            \E i \in 0..(L - 1) :
                FirstMaximum(i, search_value.s, L) /\ out = MatchResult(i)
    /\ (pc = "fuzzy" /\ \E j \in 0..(index - 1) : Positive(AdjustedScore(j, search_value.s))) =>
            /\ FirstMaximum(match_index, search_value.s, index)
            /\ best_match = Corpus[match_index + 1]
            /\ best_ratio = AdjustedScore(match_index, search_value.s)

\* two different lines tie and the first is returned
C3_Witness ==
    /\ Done
    /\ Fuzzy
    /\ L >= 2
    /\ Corpus[1] # Corpus[2]
    /\ Positive(AdjustedScore(0, search_value.s))
    /\ ~Above(AdjustedScore(0, search_value.s), AdjustedScore(1, search_value.s))
    /\ ~Above(AdjustedScore(1, search_value.s), AdjustedScore(0, search_value.s))
    /\ out = MatchResult(0)

EqualScores(s) ==
    /\ ~Above(AdjustedScore(0, s), AdjustedScore(1, s))
    /\ ~Above(AdjustedScore(1, s), AdjustedScore(0, s))

\* C4 as stated: for "aaaaa", "bbbbb" and a query equally dissimilar to
\* both, the first line, index 0, is returned.
C4_FirstOfFiveLetterLines ==
    (Done /\ Corpus = <<Aaaaa, Bbbbb>> /\ Fuzzy /\ EqualScores(search_value.s)) =>
        out = MatchResult(0)

\* C4 as amended: for "aaaaa", "bbbbb" both adjusted scores are 0 and the
\* call fails with NoMatch; two lines with equal, strictly positive adjusted
\* scores ("aaaaaa", "bbbbbb" under "ab") yield the first, index 0.
C4_TieBreak ==
    /\ (Done /\ Corpus = <<Aaaaa, Bbbbb>> /\ Fuzzy) => out = NoMatch
    /\ (Done /\ L = 2 /\ Fuzzy /\ EqualScores(search_value.s)
             /\ Positive(AdjustedScore(0, search_value.s))) => out = MatchResult(0)

C4_Witness ==
    /\ Done
    /\ Corpus = <<Aaaaa, Bbbbb>>
    /\ search_value = StrValue(<<"a", "b">>)
    /\ EqualScores(search_value.s)
    /\ out = NoMatch

\* no character of s, lowercased, occurs in any line, lowercased
SharesNoCharacter(s) ==
    \A i \in 0..(L - 1) : \A a \in 1..Len(s) : \A b \in 1..Len(Corpus[i + 1]) :
        lower(s)[a] # lower(Corpus[i + 1])[b]

\* C5: with no exact word in any line, the call fails with NoMatch exactly
\* when no line has a strictly positive adjusted score, and returns a line
\* otherwise; a query that shares no character with any line fails with
\* NoMatch.
C5_NoMatch ==
    (Done /\ Fuzzy) =>
        /\ (out = NoMatch) <=> ~SomePositive(search_value.s)
        /\ SomePositive(search_value.s) => out.kind = "send"
        /\ SharesNoCharacter(search_value.s) => out = NoMatch

\* a line long enough to score, and a query that shares nothing with it
C5_Witness ==
    /\ Done
    /\ Fuzzy
    /\ \E i \in 0..(L - 1) : Len(Corpus[i + 1]) > 5
    /\ SharesNoCharacter(search_value.s)
    /\ out = NoMatch

\* C6: lines may be shorter than 5 characters; such a line scores 0 and is
\* never selected by the fuzzy phase, and every call ends with a line, with
\* OutOfRange or with NoMatch.
C6_ShortLinesScoreZero ==
    /\ Done => out.kind \in {"send", "BadArgument"}
    /\ (Done /\ Fuzzy) =>
            IF SomePositive(search_value.s)
            THEN \E i \in 0..(L - 1) :
                    /\ FirstMaximum(i, search_value.s, L)
                    /\ Len(Corpus[i + 1]) >= 5
                    /\ out = MatchResult(i)
            ELSE out = NoMatch

\* C7: two queries equal after lowercasing have the same outcome.
C7_CaseInsensitive ==
    (Done /\ search_value.type = "str" /\ seen.out.kind # "none" /\ seen.arg.type = "str"
          /\ lower(seen.arg.s) = lower(search_value.s)) =>
        out = seen.out

C7_Witness ==
    /\ Done
    /\ search_value.type = "str"
    /\ seen.arg.type = "str"
    /\ seen.arg.s # search_value.s
    /\ lower(seen.arg.s) = lower(search_value.s)
    /\ seen.out.kind = "send"
    /\ ~AnyExact(search_value.s)
    /\ L >= 2
    /\ out = MatchResult(1)

\* C8: a call with the argument of an earlier call, whatever calls came
\* between, has that call's outcome, and no step changes the text.
C8_Pure ==
    /\ [](Done /\ seen.out.kind # "none" /\ seen.arg = search_value => out = seen.out)
    /\ [][ZEN_OF_PYTHON' = ZEN_OF_PYTHON]_vars

C8_Witness ==
    /\ Done
    /\ seen.out.kind = "send"
    /\ seen.arg = search_value
    /\ Fuzzy
    /\ out = seen.out

VoteValid == title <= 256 /\ 2 <= Len(options) /\ Len(options) <= 20

\* C10: a vote call with a title longer than 256 characters or with fewer
\* than 2 or more than 20 options raises BadArgument and sends nothing;
\* any other call sends one message, whose i-th line pairs the i-th
\* regional-indicator letter with the i-th option, and then adds one
\* reaction per option, the i-th being the i-th letter, all after the send.
C10_VotePoll ==
    /\ (vpc # "idle" /\ ~VoteValid) => (raised # <<>> /\ channel = <<>>)
    /\ (vpc # "idle" /\ VoteValid) =>
            /\ raised = <<>>
            /\ Len(channel) = 1 + reaction
            /\ reaction <= Len(options)
            /\ channel[1].type = "send"
            /\ channel[1].title = title
            /\ channel[1].description =
                    [i \in 1..Len(options) |-> [letter |-> 127462 + (i - 1), option |-> options[i]]]
            /\ \A i \in 1..reaction :
                    channel[i + 1] = [type |-> "reaction", emoji |-> 127462 + (i - 1),
                                      title |-> 0, description |-> <<>>]
    /\ (vpc = "done" /\ VoteValid) => reaction = Len(options)

C10_Witness ==
    /\ vpc = "done"
    /\ title = 256
    /\ Len(options) = 20
    /\ Len(channel) = 21

====
